---- MODULE Spec2Model ----
(***************************************************************************)
(* A model of decisionengine_modules' HTCondor query wrapper               *)
(* (modules/htcondor/htcondor_query.py) and of its Graphite metrics client *)
(* (decisionengine_modules/graphite_client.py).                            *)
(*                                                                         *)
(* Four specifications share the variables:                                *)
(*   SpecGroup    list2dict and eval_classad_expr applied to bounded       *)
(*                inputs;                                                  *)
(*   SpecQuery    a CondorQ / CondorStatus object receiving fetch calls,   *)
(*                with os.environ and the htcondor bindings as its         *)
(*                environment;                                             *)
(*   SpecStore    the same object receiving load and fetch_stored calls;   *)
(*   SpecGraphite a Graphite object receiving send_dict calls, and         *)
(*                sanitize_key.                                            *)
(***************************************************************************)
EXTENDS Integers, Sequences, FiniteSets, TLC

VARIABLES
    list_data,   \* SpecGroup: the records handed to list2dict / eval_classad_expr
    attr_name,   \* SpecGroup: list2dict's attr_name argument
    p_op,        \* SpecGroup: which function was applied ("none" before the call)
    p_result,    \* SpecGroup: what the call produced
    environ,     \* SpecQuery: os.environ's CONDOR_CONFIG entry
    query,       \* SpecQuery: the query object (its class and its fields)
    q_call,      \* SpecQuery: the last call on the query object and its outcome
    graphite,    \* SpecGraphite: the Graphite object
    g_call       \* SpecGraphite: the last call and its outcome

vars == <<list_data, attr_name, p_op, p_result, environ, query, q_call, graphite, g_call>>

----------------------------------------------------------------------------
(* Bounds of the model.                                                    *)

\* the longest list of records an input holds
MaxRecs == 2

----------------------------------------------------------------------------
(* Classad values.  A value is an int, classad.Value.Undefined, or an      *)
(* ExprTree; ExprTree(n).eval() gives the int n for n > 0, Undefined for   *)
(* n = 0 and raises for n < 0.                                             *)

IntVal(n) == [cls |-> "int", v |-> n]
UndefinedVal == [cls |-> "Undefined", v |-> 0]
ExprTree(n) == [cls |-> "ExprTree", v |-> n]

\* x.__class__.__name__
ClassName(x) == x.cls

\* x.eval(): [raised, val]
Eval(x) ==
    [raised |-> x.v < 0,
     val |-> IF x.v = 0 THEN UndefinedVal ELSE IntVal(x.v)]

\* str(x) and '%s' % x
Str(x) ==
    CASE x.cls = "Undefined" -> "Undefined"
      [] x.cls = "int" /\ x.v = 0 -> "0"
      [] x.cls = "int" /\ x.v = 1 -> "1"
      [] x.cls = "int" /\ x.v = 2 -> "2"
      [] x.cls = "int" /\ x.v = 3 -> "3"
      [] OTHER -> "<expr>"

\* s.lower() on the attribute names of the model
Lower(s) ==
    CASE s = "ClusterId" -> "clusterid"
      [] s = "CLUSTERID" -> "clusterid"
      [] s = "clusterid" -> "clusterid"
      [] s = "ProcId" -> "procid"
      [] s = "PROCID" -> "procid"
      [] s = "procid" -> "procid"
      [] s = "Name" -> "name"
      [] OTHER -> s

----------------------------------------------------------------------------
(* Records.  A raw record (a classad, a dict) is the sequence of its       *)
(* [k, v] items in iteration order, its names distinct.  A normalized      *)
(* record and the grouped result are mappings (functions).                 *)

EmptyDict == [x \in {} |-> 0]

\* d[k] = v on a dict
DictSet(d, k, v) == [x \in (DOMAIN d) \cup {k} |-> IF x = k THEN v ELSE d[x]]

\* `an in list_el`
Has(list_el, an) == \E j \in 1..Len(list_el) : list_el[j].k = an

\* list_el[an], for a name the record has
Get(list_el, an) == list_el[CHOOSE j \in 1..Len(list_el) : list_el[j].k = an].v

\* A group key: Python tells the bare value 1 from the tuple (1,).
ScalarKey(v) == [tuple |-> FALSE, vals |-> <<v>>]
TupleKey(vs) == [tuple |-> TRUE, vals |-> vs]

\* attr_name: a list (or tuple) of names, or one bare name
AttrList(names) == [isList |-> TRUE, names |-> names]
AttrSingle(name) == [isList |-> FALSE, names |-> <<name>>]

----------------------------------------------------------------------------
(* list2dict                                                               *)

\* the inner loop `for k in list_el` with its break: the value of the first
\* key from position j on that matches an case-insensitively, appended
RECURSIVE try_lower_cases(_, _, _, _)
try_lower_cases(list_el, an, j, dict_name) ==
    IF j > Len(list_el) THEN dict_name
    ELSE IF Lower(an) = Lower(list_el[j].k) THEN Append(dict_name, list_el[j].v)
    ELSE try_lower_cases(list_el, an, j + 1, dict_name)

\* The case-sensitive variant: the fallback loop never matches.
dict_name_append_exact_only(list_el, an, dict_name) ==
    IF Has(list_el, an) THEN Append(dict_name, Get(list_el, an)) ELSE dict_name

\* one turn of `for an in attr_name`
dict_name_append(list_el, an, dict_name) ==
    IF Has(list_el, an)
    THEN Append(dict_name, Get(list_el, an))
    ELSE try_lower_cases(list_el, an, 1, dict_name)

\* `for an in attr_name` from position p on
RECURSIVE dict_name_loop(_, _, _, _)
dict_name_loop(list_el, names, p, dict_name) ==
    IF p > Len(names) THEN dict_name
    ELSE dict_name_loop(list_el, names, p + 1,
                        dict_name_append(list_el, names[p], dict_name))

\* the key of one record: [raised, key]
dict_name_of(list_el, attr) ==
    IF attr.isList
    THEN [raised |-> "none", key |-> TupleKey(dict_name_loop(list_el, attr.names, 1, <<>>))]
    ELSE IF Has(list_el, attr.names[1])
    THEN [raised |-> "none", key |-> ScalarKey(Get(list_el, attr.names[1]))]
    ELSE [raised |-> "KeyError", key |-> TupleKey(<<>>)]

\* the body of `for a in list_el`, with its try / except: pass
l2d_attr(list_el, j, dict_el) ==
    LET a == list_el[j].k
        x == list_el[j].v
    IN  IF ClassName(x) = "ExprTree"
        THEN IF Eval(x).raised THEN dict_el
             ELSE IF Str(Eval(x).val) # "Undefined"
                  THEN DictSet(dict_el, a, Eval(x).val)
                  ELSE dict_el
        ELSE IF Str(x) # "Undefined" THEN DictSet(dict_el, a, x) ELSE dict_el

\* `for a in list_el` from position j on
RECURSIVE l2d_dict_el(_, _, _)
l2d_dict_el(list_el, j, dict_el) ==
    IF j > Len(list_el) THEN dict_el
    ELSE l2d_dict_el(list_el, j + 1, l2d_attr(list_el, j, dict_el))

\* The variant that overwrites a group instead of appending to it.
l2d_append_overwrite(dict_data, dict_name, dict_el) ==
    DictSet(dict_data, dict_name, <<dict_el>>)

\* `if dict_name not in dict_data: ...; dict_data[dict_name].append(dict_el)`
l2d_append(dict_data, dict_name, dict_el) ==
    IF dict_name \in DOMAIN dict_data
    THEN DictSet(dict_data, dict_name, Append(dict_data[dict_name], dict_el))
    ELSE DictSet(dict_data, dict_name, <<dict_el>>)

\* `for list_el in list_data` from position i on
RECURSIVE l2d_loop(_, _, _, _)
l2d_loop(data, attr, i, dict_data) ==
    IF i > Len(data) THEN [raised |-> "none", dict |-> dict_data]
    ELSE LET kn == dict_name_of(data[i], attr)
         IN  IF kn.raised # "none"
             THEN [raised |-> kn.raised, dict |-> EmptyDict]
             ELSE l2d_loop(data, attr, i + 1,
                           l2d_append(dict_data, kn.key, l2d_dict_el(data[i], 1, EmptyDict)))

\* list2dict(list_data, attr_name): [raised, dict]
list2dict(data, attr) == l2d_loop(data, attr, 1, EmptyDict)

----------------------------------------------------------------------------
(* eval_classad_expr                                                       *)

\* The variant that keeps an attribute whose value is Undefined.
eval_attr_keep_undefined(classad, j, dict_el) ==
    LET x == classad[j].v
    IN  IF ClassName(x) = "ExprTree"
        THEN IF Eval(x).raised THEN dict_el
             ELSE DictSet(dict_el, classad[j].k, Eval(x).val)
        ELSE DictSet(dict_el, classad[j].k, x)

\* the body of `for attr in classad`, with its try / except: pass
eval_attr(classad, j, dict_el) ==
    LET attr == classad[j].k
        x == classad[j].v
    IN  IF ClassName(x) = "ExprTree"
        THEN IF Eval(x).raised THEN dict_el
             ELSE IF Str(Eval(x).val) # "Undefined"
                  THEN DictSet(dict_el, attr, Eval(x).val)
                  ELSE dict_el
        ELSE IF Str(x) # "Undefined" THEN DictSet(dict_el, attr, x) ELSE dict_el

\* `for attr in classad` from position j on
RECURSIVE eval_dict_el(_, _, _)
eval_dict_el(classad, j, dict_el) ==
    IF j > Len(classad) THEN dict_el
    ELSE eval_dict_el(classad, j + 1, eval_attr(classad, j, dict_el))

\* `for classad in classads` from position i on
RECURSIVE eval_loop(_, _, _)
eval_loop(classads, i, classad_list) ==
    IF i > Len(classads) THEN classad_list
    ELSE eval_loop(classads, i + 1,
                   Append(classad_list, eval_dict_el(classads[i], 1, EmptyDict)))

\* eval_classad_expr(classads): the list of normalized records
eval_classad_expr(classads) == eval_loop(classads, 1, <<>>)

----------------------------------------------------------------------------
(* The query classes: Query, CondorQuery, CondorQ, CondorStatus.           *)

\* Python's None and a string value
None == [some |-> FALSE, val |-> ""]
Some(s) == [some |-> TRUE, val |-> s]

\* the truth value of an optional string: None and "" are false
Truthy(x) == x.some /\ x.val # ""

\* a returned value: a dict (a grouped result) or a list
DictValue(d) == [kind |-> "dict", dict |-> d, list |-> <<>>]
ListValue(l) == [kind |-> "list", dict |-> EmptyDict, list |-> l]

\* CondorQ(schedd_name, pool_name), after Query.__init__
CondorQ(schedd_name, pool_name) ==
    [cls |-> "CondorQ", schedd_name |-> schedd_name, pool_name |-> pool_name,
     resource_str |-> "schedd", group_attr |-> AttrList(<<"ClusterId", "ProcId">>),
     stored_data |-> DictValue(EmptyDict)]

\* CondorStatus(subsystem_name, pool_name, group_attr), after Query.__init__
CondorStatus(subsystem_name, pool_name, group_attr) ==
    [cls |-> "CondorStatus", schedd_name |-> None, pool_name |-> pool_name,
     resource_str |-> IF subsystem_name.some THEN subsystem_name.val ELSE "",
     group_attr |-> IF group_attr.some THEN group_attr.val ELSE AttrList(<<"Name">>),
     stored_data |-> DictValue(EmptyDict)]

\* resource_str_to_py_adtype: the htcondor.AdTypes member
resource_str_to_py_adtype(resource_str) ==
    CASE resource_str = "any" -> "Any"
      [] resource_str = "collector" -> "Collector"
      [] resource_str = "generic" -> "Generic"
      [] resource_str = "grid" -> "Grid"
      [] resource_str = "had" -> "HAD"
      [] resource_str = "license" -> "License"
      [] resource_str = "master" -> "Master"
      [] resource_str = "negotiator" -> "Negotiator"
      [] resource_str = "schedd" -> "Schedd"
      [] resource_str = "startd" -> "Startd"
      [] resource_str = "submitter" -> "Submitter"
      [] OTHER -> "Startd"

\* bindings_friendly_constraint: None becomes True
bindings_friendly_constraint(constraint) ==
    IF ~constraint.some THEN Some("True") ELSE constraint

\* bindings_friendly_attrs: a list as it is, a string as a one-element list,
\* anything else (None too) as the empty list
bindings_friendly_attrs(format_list) ==
    IF format_list.type = "list" THEN format_list.names
    ELSE IF format_list.type = "str" THEN <<format_list.names[1]>>
    ELSE <<>>

\* os.path.exists on the paths of the model
ExistingPaths == {"/etc/condor/override"}
PathExists(path) == path \in ExistingPaths

\* lines 110-112 and 171-173: CONDOR_CONFIG once the override is applied
ApplyOverride(env, condor_config) ==
    IF Truthy(condor_config) /\ PathExists(condor_config.val)
    THEN Some(condor_config.val)
    ELSE env

\* the finally clause: `if old_condor_config_env: os.environ[...] = old`
RestoreEnv(old_condor_config_env, env) ==
    IF Truthy(old_condor_config_env) THEN old_condor_config_env ELSE env

\* The htcondor calls a fetch makes, in order.  ext is what the bindings do
\* in this call: ext.fail_at names the call that raises ("none": no call
\* does), ext.exc the exception it raises, ext.results what query returns.
CondorQCalls(self) ==
    <<"reload_config", "Collector">>
        \o (IF self.schedd_name.some THEN <<"locate", "Schedd">> ELSE <<"Schedd">>)
        \o <<"query">>
CondorStatusCalls(self) == <<"reload_config", "Collector", "query">>

\* whether the try block's htcondor calls raise
ClientRaises(calls, ext) == \E i \in 1..Len(calls) : calls[i] = ext.fail_at

\* line 126: results_dict = list2dict(results, self.group_attr)
CondorQ_results_dict(self, results) ==
    [raised |-> list2dict(results, self.group_attr).raised,
     value |-> DictValue(list2dict(results, self.group_attr).dict)]

\* The variant that groups the records by self.group_attr, as CondorQ does.
CondorStatus_results_grouped(self, classads) ==
    [raised |-> list2dict(classads, self.group_attr).raised,
     value |-> DictValue(list2dict(classads, self.group_attr).dict)]

\* line 181: results = eval_classad_expr(classads)
CondorStatus_results(self, classads) ==
    [raised |-> "none", value |-> ListValue(eval_classad_expr(classads))]

\* the message of CondorQ.fetch's QueryError
CondorQ_err_str(self, ex) ==
    [schedd |-> IF self.schedd_name.some THEN self.schedd_name.val ELSE "default",
     pool |-> IF self.pool_name.some THEN self.pool_name.val ELSE "default",
     cause |-> ex]

NoErr == [schedd |-> "", pool |-> "", cause |-> ""]

\* CondorQ.fetch(constraint, format_list, condor_config) with the process
\* environment env: what the call leaves and what it returns or raises
CondorQ_fetch(self, env, constraint, format_list, condor_config, ext) ==
    LET old_condor_config_env == env
        env1 == ApplyOverride(env, condor_config)
        failed == ClientRaises(CondorQCalls(self), ext)
        queried == ~failed \/ ext.fail_at = "query"
        rd == CondorQ_results_dict(self, ext.results)
        ex == IF failed THEN ext.exc ELSE rd.raised
    IN  [environ |-> RestoreEnv(old_condor_config_env, env1),
         seen_config |-> env1,
         collector |-> IF Truthy(self.pool_name) THEN self.pool_name ELSE None,
         queried |-> IF queried
                     THEN [constraint |-> bindings_friendly_constraint(constraint),
                           attrs |-> bindings_friendly_attrs(format_list)]
                     ELSE [constraint |-> None, attrs |-> <<>>],
         raised |-> IF ex # "none" THEN "QueryError" ELSE "none",
         err_str |-> IF ex # "none" THEN CondorQ_err_str(self, ex) ELSE NoErr,
         ret |-> IF ex # "none" THEN DictValue(EmptyDict) ELSE rd.value]

\* CondorStatus.fetch(constraint, format_list, condor_config): its except
\* clause re-raises (line 183) before the QueryError is built
CondorStatus_fetch(self, env, constraint, format_list, condor_config, ext) ==
    LET old_condor_config_env == env
        env1 == ApplyOverride(env, condor_config)
        adtype == resource_str_to_py_adtype(self.resource_str)
        failed == ClientRaises(CondorStatusCalls(self), ext)
        queried == ~failed \/ ext.fail_at = "query"
        rs == CondorStatus_results(self, ext.results)
        ex == IF failed THEN ext.exc ELSE rs.raised
    IN  [environ |-> RestoreEnv(old_condor_config_env, env1),
         seen_config |-> env1,
         collector |-> IF Truthy(self.pool_name) THEN self.pool_name ELSE None,
         queried |-> IF queried
                     THEN [adtype |-> adtype,
                           constraint |-> bindings_friendly_constraint(constraint),
                           attrs |-> bindings_friendly_attrs(format_list)]
                     ELSE [adtype |-> adtype, constraint |-> None, attrs |-> <<>>],
         raised |-> ex,
         err_str |-> NoErr,
         ret |-> IF ex # "none" THEN ListValue(<<>>) ELSE rs.value]

\* self.fetch(...), by the object's class
Fetch(self, env, constraint, format_list, condor_config, ext) ==
    IF self.cls = "CondorQ"
    THEN CondorQ_fetch(self, env, constraint, format_list, condor_config, ext)
    ELSE CondorStatus_fetch(self, env, constraint, format_list, condor_config, ext)

\* A constraint_func a caller passes to fetch_stored, applied to one element
\* el: "len_gt_1" is `lambda el: len(el) > 1`, "has_ProcId" is
\* `lambda el: 'ProcId' in el`.  Both accept a list and a record alike.
ListEl(items) == [type |-> "list", items |-> items]
DictEl(items) == [type |-> "dict", items |-> items]
PyLen(el) == IF el.type = "list" THEN Len(el.items) ELSE Cardinality(DOMAIN el.items)
PyContains(el, name) == el.type = "dict" /\ name \in DOMAIN el.items
CallConstraint(constraint_func, el) ==
    IF constraint_func = "len_gt_1" THEN PyLen(el) > 1 ELSE PyContains(el, "ProcId")

\* apply_constraint(data, constraint_func): data.iteritems() exists on a dict
\* only, and constraint_func is handed each value of the dict whole
apply_constraint(data, constraint_func) ==
    IF constraint_func = "None" THEN [raised |-> "none", value |-> data]
    ELSE IF data.kind # "dict" THEN [raised |-> "AttributeError", value |-> DictValue(EmptyDict)]
    ELSE [raised |-> "none",
          value |-> DictValue(
              [key \in {k \in DOMAIN data.dict :
                           CallConstraint(constraint_func, ListEl(data.dict[k]))} |->
                  data.dict[key]])]

\* Query.fetch_stored(constraint_func)
fetch_stored(self, constraint_func) == apply_constraint(self.stored_data, constraint_func)

----------------------------------------------------------------------------
(* graphite_client: sanitize_key and Graphite.send_dict.  A string is the  *)
(* sequence of its characters.                                             *)

\* Graphite.__init__'s default pickle_port
DefaultPicklePort == 2004

NoKey == [some |-> FALSE, val |-> <<>>]
SomeKey(chars) == [some |-> TRUE, val |-> chars]

\* key.replace(old, new) for one-character old and new
Replace(key, old, new) == [i \in 1..Len(key) |-> IF key[i] = old THEN new ELSE key[i]]

\* sanitize_key(key): None stays None; "." and " " become "_"
sanitize_key(key) ==
    IF ~key.some THEN key
    ELSE SomeKey(Replace(Replace(key.val, ".", "_"), " ", "_"))

\* Graphite(host, pickle_port)
Graphite(host, pickle_port) == [graphite_host |-> host, graphite_pickle_port |-> pickle_port]

\* The variant that sanitizes the counter name.
metric_path_sanitized(namespace, k) == namespace \o <<".">> \o sanitize_key(SomeKey(k)).val

\* line 38: namespace + "." + k
metric_path(namespace, k) == namespace \o <<".">> \o k

\* lines 37-39: post_data, one (path, (now, v)) per item of data, in order
post_data_of(namespace, items, now) ==
    [i \in 1..Len(items) |->
        [path |-> metric_path(namespace, items[i].k), stamp |-> now, value |-> items[i].v]]

\* lines 43-45: the pickled list behind the 4-byte big-endian length of it
message_of(post_data) ==
    [header |-> [format |-> "!L", length_of |-> post_data],
     payload |-> [protocol |-> 2, pickled |-> post_data]]
NoMessage == [header |-> [format |-> "", length_of |-> <<>>],
              payload |-> [protocol |-> 0, pickled |-> <<>>]]

\* The variant that takes an empty mapping for no data too.
send_dict_no_data_or_empty(data) == ~data.some \/ data.items = <<>>

\* line 31: `if data is None`
send_dict_no_data(data) == ~data.some

\* The variant that closes the socket only after a clean send.
finally_close_on_success(sock, failed) == [sock EXCEPT !.closed = ~failed]

\* lines 57-58: `finally: s.close()`
finally_close(sock, failed) == [sock EXCEPT !.closed = TRUE]

\* s.connect((host, port)): a port outside 0..65535 is an OverflowError;
\* otherwise the network decides (net.connect: "ok" or "socket.error")
ConnectOutcome(self, net) ==
    IF self.graphite_pickle_port \notin 0..65535 THEN "OverflowError" ELSE net.connect

\* lines 51-58: the socket, the try block, its except and its finally
throw_data(self, message, net) ==
    LET s == [connected |-> FALSE, sent |-> NoMessage, closed |-> FALSE]
        c == ConnectOutcome(self, net)
        s1 == IF c = "ok" THEN [s EXCEPT !.connected = TRUE] ELSE s
        w == IF c = "ok" THEN net.sendall ELSE c
        s2 == IF w = "ok" THEN [s1 EXCEPT !.sent = message] ELSE s1
    IN  [raised |-> IF w \in {"ok", "socket.error"} THEN "none" ELSE w,
         log |-> IF w = "socket.error"
                 THEN <<[level |-> "exception", host |-> self.graphite_host,
                         port |-> self.graphite_pickle_port]>>
                 ELSE <<>>,
         sockets |-> <<finally_close(s2, w # "ok")>>]

\* the debug line of each sample
DebugLog(post_data) == [i \in 1..Len(post_data) |-> [level |-> "debug", sample |-> post_data[i]]]

\* Graphite.send_dict(namespace, data, debug_print, send_data) at time now
send_dict(self, namespace, data, debug_print, send_data, now, net) ==
    IF send_dict_no_data(data)
    THEN [raised |-> "none", log |-> <<[level |-> "warning"]>>, post_data |-> <<>>,
          message |-> NoMessage, sockets |-> <<>>]
    ELSE LET post_data == post_data_of(namespace, data.items, now)
             dbg == IF debug_print THEN DebugLog(post_data) ELSE <<>>
             message == message_of(post_data)
         IN  IF ~send_data
             THEN [raised |-> "none", log |-> dbg, post_data |-> post_data,
                   message |-> message, sockets |-> <<>>]
             ELSE [raised |-> throw_data(self, message, net).raised,
                   log |-> dbg \o throw_data(self, message, net).log,
                   post_data |-> post_data, message |-> message,
                   sockets |-> throw_data(self, message, net).sockets]

----------------------------------------------------------------------------
(* SpecGroup: list2dict and eval_classad_expr on bounded inputs.           *)

\* the sequences over S of length at most n
SeqsUpTo(S, n) == UNION {[1..m -> S] : m \in 0..n}

\* the names all distinct
DistinctNames(rec) == \A i, j \in 1..Len(rec) : i # j => rec[i].k # rec[j].k

\* Records for the grouping: case variants of the names, few values.
GroupNames == {"ClusterId", "clusterid", "ProcId"}
GroupValues(name) ==
    IF name = "ProcId" THEN {ExprTree(2)} ELSE {IntVal(1), ExprTree(2)}
GroupRecords ==
    {rec \in SeqsUpTo([k : GroupNames, v : {IntVal(1), ExprTree(2)}], 2) :
        /\ DistinctNames(rec)
        /\ \A j \in 1..Len(rec) : rec[j].v \in GroupValues(rec[j].k)}

\* Records for the normalization: every kind of value, the names in one order.
NormNames == <<"ClusterId", "ProcId">>
NormValues(name) ==
    IF name = "ProcId" THEN {ExprTree(3), ExprTree(-1)}
    ELSE {IntVal(1), UndefinedVal, ExprTree(3), ExprTree(0), ExprTree(-1)}
NormRecords ==
    {rec \in SeqsUpTo([k : {"ClusterId", "ProcId"},
                       v : {IntVal(1), UndefinedVal, ExprTree(3), ExprTree(0), ExprTree(-1)}], 2) :
        \A j \in 1..Len(rec) : rec[j].k = NormNames[j] /\ rec[j].v \in NormValues(rec[j].k)}

InputLists == SeqsUpTo(GroupRecords, MaxRecs) \cup SeqsUpTo(NormRecords, MaxRecs)

\* CondorQ's group_attr, a list that only matches by case folding,
\* CondorStatus' default group_attr, and a bare name
AttrSpecs ==
    {AttrList(<<"ClusterId", "ProcId">>), AttrList(<<"CLUSTERID", "PROCID">>),
     AttrList(<<"Name">>), AttrSingle("ClusterId")}

NoResult == [raised |-> "none", dict |-> EmptyDict, list |-> <<>>]
NoAttr == AttrList(<<>>)

\* the variables of the other specifications, at rest
QueryIdle ==
    [cls |-> "none", schedd_name |-> None, pool_name |-> None, resource_str |-> "",
     group_attr |-> NoAttr,
     stored_data |-> [kind |-> "dict", dict |-> EmptyDict, list |-> <<>>]]
QCallIdle == [op |-> "none"]
GraphiteIdle == Graphite("", DefaultPicklePort)
GCallIdle == [op |-> "none"]

QueryAtRest == environ = None /\ query = QueryIdle /\ q_call = QCallIdle
GraphiteAtRest == graphite = GraphiteIdle /\ g_call = GCallIdle
GroupAtRest == list_data = <<>> /\ attr_name = NoAttr /\ p_op = "none" /\ p_result = NoResult

InitGroup ==
    /\ list_data \in InputLists
    /\ attr_name = NoAttr
    /\ p_op = "none"
    /\ p_result = NoResult
    /\ QueryAtRest
    /\ GraphiteAtRest

\* a call of list2dict(list_data, attr)
CallList2Dict ==
    /\ p_op = "none"
    /\ \E attr \in AttrSpecs :
        \E r \in {list2dict(list_data, attr)} :
            /\ attr_name' = attr
            /\ p_result' = [raised |-> r.raised, dict |-> r.dict, list |-> <<>>]
    /\ p_op' = "list2dict"
    /\ UNCHANGED <<list_data, environ, query, q_call, graphite, g_call>>

\* a call of eval_classad_expr(list_data)
CallEvalClassadExpr ==
    /\ p_op = "none"
    /\ p_result' = [raised |-> "none", dict |-> EmptyDict,
                    list |-> eval_classad_expr(list_data)]
    /\ p_op' = "eval_classad_expr"
    /\ UNCHANGED <<list_data, attr_name, environ, query, q_call, graphite, g_call>>

NextGroup == CallList2Dict \/ CallEvalClassadExpr

SpecGroup == InitGroup /\ [][NextGroup]_vars

----------------------------------------------------------------------------
(* SpecQuery and SpecStore: calls on a query object.                       *)

\* what a scheduler returns: a job whose ProcId is an expression, and a
\* record that names its cluster in lower case, by an undefined expression
QueryRecords ==
    {<<[k |-> "ClusterId", v |-> IntVal(1)], [k |-> "ProcId", v |-> ExprTree(2)]>>,
     <<[k |-> "clusterid", v |-> ExprTree(0)]>>}
QueryResults == SeqsUpTo(QueryRecords, MaxRecs)

\* what the bindings may do in one fetch on self
ExtOutcomes(self) ==
    LET calls == IF self.cls = "CondorQ" THEN CondorQCalls(self) ELSE CondorStatusCalls(self)
    IN  {[fail_at |-> "none", exc |-> "none", results |-> r] : r \in QueryResults}
        \cup {[fail_at |-> calls[i], exc |-> "IOError", results |-> <<>>] :
                 i \in 1..Len(calls)}

\* the constraint and format_list of a call
CallArgs ==
    {[constraint |-> None, format_list |-> [type |-> "None", names |-> <<>>]],
     [constraint |-> Some("JobStatus == 1"),
      format_list |-> [type |-> "list", names |-> <<"ClusterId", "ProcId">>]],
     [constraint |-> Some("JobStatus == 1"),
      format_list |-> [type |-> "str", names |-> <<"ClusterId">>]]}
CondorConfigs == {None, Some("/etc/condor/override"), Some("/etc/condor/missing")}
ConstraintFuncs == {"None", "len_gt_1", "has_ProcId"}

QueryObjects ==
    {CondorQ(None, None), CondorQ(Some("schedd1"), Some("pool1")),
     CondorStatus(None, None, None), CondorStatus(Some("schedd"), Some("pool1"), None)}

InitQuery ==
    /\ environ \in {None, Some(""), Some("/etc/condor/condor_config")}
    /\ query \in QueryObjects
    /\ q_call = QCallIdle
    /\ GroupAtRest
    /\ GraphiteAtRest

\* query.fetch(constraint, format_list, condor_config)
QFetch ==
    /\ \E args \in CallArgs, condor_config \in CondorConfigs, ext \in ExtOutcomes(query) :
        \E r \in {Fetch(query, environ, args.constraint, args.format_list, condor_config, ext)} :
            /\ environ' = r.environ
            /\ q_call' = [op |-> "fetch", condor_config |-> condor_config,
                          env_before |-> environ, ext |-> ext, out |-> r]
    /\ UNCHANGED <<query, list_data, attr_name, p_op, p_result, graphite, g_call>>

\* query.load(constraint, format_list, condor_config):
\* self.stored_data = self.fetch(...), left alone when fetch raises
QLoad ==
    /\ \E args \in CallArgs, condor_config \in CondorConfigs, ext \in ExtOutcomes(query) :
        \E r \in {Fetch(query, environ, args.constraint, args.format_list, condor_config, ext)} :
            /\ environ' = r.environ
            /\ query' = IF r.raised = "none"
                        THEN [query EXCEPT !.stored_data = r.ret]
                        ELSE query
            /\ q_call' = [op |-> "load", constraint_func |-> "None",
                          stored_before |-> query.stored_data,
                          raised |-> r.raised, ret |-> r.ret]
    /\ UNCHANGED <<list_data, attr_name, p_op, p_result, graphite, g_call>>

\* query.fetch_stored(constraint_func)
QFetchStored ==
    /\ \E constraint_func \in ConstraintFuncs :
        \E r \in {fetch_stored(query, constraint_func)} :
            q_call' = [op |-> "fetch_stored", constraint_func |-> constraint_func,
                       stored_before |-> query.stored_data,
                       raised |-> r.raised, ret |-> r.value]
    /\ UNCHANGED <<environ, query, list_data, attr_name, p_op, p_result, graphite, g_call>>

NextQuery == QFetch
SpecQuery == InitQuery /\ [][NextQuery]_vars

NextStore == QLoad \/ QFetchStored
SpecStore == InitQuery /\ [][NextStore]_vars

----------------------------------------------------------------------------
(* What the claims call a normalized record and a record's key.            *)

\* the value of an attribute after evaluation
Evaluated(x) == IF ClassName(x) = "ExprTree" THEN Eval(x).val ELSE x

\* the value is obtained without failure and its string form is not "Undefined"
Survives(x) ==
    /\ ClassName(x) = "ExprTree" => ~Eval(x).raised
    /\ Str(Evaluated(x)) # "Undefined"

\* the normalized form of a raw record
Normalized(rec) ==
    [n \in {rec[j].k : j \in {i \in 1..Len(rec) : Survives(rec[i].v)}} |->
        Evaluated(Get(rec, n))]

\* the value a record gives for position p of a list of names, if any
MatchesAt(rec, an) == {j \in 1..Len(rec) : Lower(rec[j].k) = Lower(an)}
ValueAt(rec, an) ==
    IF Has(rec, an) THEN Get(rec, an)
    ELSE rec[CHOOSE j \in MatchesAt(rec, an) : \A i \in MatchesAt(rec, an) : j <= i].v

\* the key the claims give a record under a list of names
TupleKeyOf(rec, names) ==
    LET P == {p \in 1..Len(names) : MatchesAt(rec, names[p]) # {}}
        Nth(r) == CHOOSE p \in P : Cardinality({q \in P : q < p}) = r - 1
    IN  TupleKey([r \in 1..Cardinality(P) |-> ValueAt(rec, names[Nth(r)])])

\* the positions of list_data whose computed key is k, and the r-th of them
IndexesOf(k) ==
    {i \in 1..Len(list_data) : dict_name_of(list_data[i], attr_name).key = k}
NthIndexOf(k, r) ==
    CHOOSE i \in IndexesOf(k) : Cardinality({h \in IndexesOf(k) : h < i}) = r - 1

Grouped == p_op = "list2dict" /\ p_result.raised = "none"

\* C7: list2dict produces an order-preserving partition of its input: each
\* record is appended exactly once to the sequence of its computed key,
\* records sharing a key keep their relative order (duplicates are kept),
\* the groups hold as many records as the input, and no group is empty.
C7_Partition ==
    Grouped =>
        LET d == p_result.dict
        IN  /\ \A i \in 1..Len(list_data) :
                  dict_name_of(list_data[i], attr_name).key \in DOMAIN d
            /\ \A k \in DOMAIN d :
                  /\ Len(d[k]) > 0
                  /\ Len(d[k]) = Cardinality(IndexesOf(k))
                  /\ \A r \in 1..Len(d[k]) :
                        d[k][r] = l2d_dict_el(list_data[NthIndexOf(k, r)], 1, EmptyDict)
            /\ Cardinality({kr \in (DOMAIN d) \X (1..MaxRecs + 1) :
                               kr[2] <= Len(d[kr[1]])}) = Len(list_data)

\* two records of identical content land, both, in one group
C7_Witness ==
    /\ Grouped
    /\ Len(list_data) = 2
    /\ list_data[1] = list_data[2]
    /\ \E k \in DOMAIN p_result.dict : Len(p_result.dict[k]) = 2

\* C8: grouping by a list of names, a record's key is the tuple built
\* position by position (exact-case value, else the first case-insensitive
\* match, else nothing); grouping by one bare name, the key is the value
\* under that exact name, with no case folding.
C8_Keys ==
    p_op = "list2dict" =>
        IF attr_name.isList
        THEN /\ p_result.raised = "none"
             /\ DOMAIN p_result.dict =
                    {TupleKeyOf(list_data[i], attr_name.names) : i \in 1..Len(list_data)}
        ELSE IF \A i \in 1..Len(list_data) : Has(list_data[i], attr_name.names[1])
        THEN /\ p_result.raised = "none"
             /\ DOMAIN p_result.dict =
                    {ScalarKey(Get(list_data[i], attr_name.names[1])) :
                        i \in 1..Len(list_data)}
        ELSE p_result.raised = "KeyError"

\* the spec's example: {a: 1, B: 2} grouped by [A, B] has key (1, 2)
C8_Witness ==
    /\ Grouped
    /\ attr_name = AttrList(<<"ClusterId", "ProcId">>)
    /\ list_data = <<(<<[k |-> "clusterid", v |-> IntVal(1)],
                        [k |-> "ProcId", v |-> ExprTree(2)]>>)>>
    /\ DOMAIN p_result.dict = {TupleKey(<<IntVal(1), ExprTree(2)>>)}

----------------------------------------------------------------------------
(* The claims about fetch, load and fetch_stored.                          *)

Fetched == q_call.op = "fetch"
FetchReturned == Fetched /\ q_call.out.raised = "none"

\* the override is supplied and names an existing path
OverrideApplies(condor_config) == condor_config.some /\ PathExists(condor_config.val)

\* C1: after every fetch, returning or raising, CONDOR_CONFIG is what it was
\* before the call (a value, or unset), and an override that is supplied and
\* exists is what the bindings see during the call.
C1_EnvRestored ==
    Fetched =>
        /\ environ = q_call.env_before
        /\ q_call.out.seen_config =
               IF OverrideApplies(q_call.condor_config)
               THEN Some(q_call.condor_config.val)
               ELSE q_call.env_before

\* C2: a fetch in which a call of the bindings fails ends by raising
\* QueryError, for CondorQ and for CondorStatus.
C2_OnlyQueryError ==
    Fetched /\ q_call.ext.fail_at # "none" => q_call.out.raised = "QueryError"

\* d maps each key of raw's records (under the list names) to the normalized
\* records of that key, in raw's order
IsGroupingOf(d, raw, names) ==
    /\ DOMAIN d = {TupleKeyOf(raw[i], names) : i \in 1..Len(raw)}
    /\ \A k \in DOMAIN d :
          LET I == {i \in 1..Len(raw) : TupleKeyOf(raw[i], names) = k}
              Nth(r) == CHOOSE i \in I : Cardinality({h \in I : h < i}) = r - 1
          IN  /\ Len(d[k]) = Cardinality(I)
              /\ \A r \in 1..Len(d[k]) : d[k][r] = Normalized(raw[Nth(r)])

\* l is raw's records normalized, one for one and in raw's order
IsNormalizationOf(l, raw) ==
    /\ Len(l) = Len(raw)
    /\ \A i \in 1..Len(raw) : l[i] = Normalized(raw[i])

SatisfyingOf(seq, constraint_func) ==
    LET Test(rec) == CallConstraint(constraint_func, DictEl(rec))
    IN  SelectSeq(seq, Test)
LimitedTo(data, constraint_func) ==
    IF data.kind = "list" THEN ListValue(SatisfyingOf(data.list, constraint_func))
    ELSE DictValue(
             [k \in {g \in DOMAIN data.dict :
                        SatisfyingOf(data.dict[g], constraint_func) # <<>>} |->
                 SatisfyingOf(data.dict[k], constraint_func)])

\* C10: the stored data is the result of the most recent load's fetch;
\* fetch_stored(None) returns it unchanged; fetch_stored(f) returns it limited
\* to the records that satisfy f, and leaves the stored data as it was.
C10_StoredAndFiltered ==
    /\ q_call.op = "load" /\ q_call.raised = "none" => query.stored_data = q_call.ret
    /\ q_call.op = "load" /\ q_call.raised # "none" => query.stored_data = q_call.stored_before
    /\ q_call.op = "fetch_stored" =>
          /\ query.stored_data = q_call.stored_before
          /\ q_call.raised = "none"
          /\ q_call.ret = IF q_call.constraint_func = "None"
                          THEN query.stored_data
                          ELSE LimitedTo(query.stored_data, q_call.constraint_func)

----------------------------------------------------------------------------
(* SpecGraphite: send_dict calls on a Graphite object, and sanitize_key.   *)

\* the most entries a mapping passed to send_dict holds
MaxKeys == 2

CounterNames == {<<"c", "1">>, <<"a", ".", "b">>, <<"a", " ", "b">>}
Namespaces == {<<"t">>, <<"n", ".", "s">>}
NoData == [some |-> FALSE, items |-> <<>>]
Mappings ==
    {[some |-> TRUE, items |-> items] :
        items \in {m \in SeqsUpTo([k : CounterNames, v : {5}], MaxKeys) : DistinctNames(m)}}
NetOutcomes ==
    {[connect |-> "ok", sendall |-> "ok"], [connect |-> "ok", sendall |-> "socket.error"],
     [connect |-> "socket.error", sendall |-> "ok"]}

InitGraphite ==
    /\ graphite \in {Graphite("fifemondata.fnal.gov", DefaultPicklePort),
                     Graphite("fifemondata.fnal.gov", 70000)}
    /\ g_call = GCallIdle
    /\ GroupAtRest
    /\ QueryAtRest

\* graphite.send_dict(namespace, data, debug_print, send_data)
GSendDict ==
    /\ \E namespace \in Namespaces, data \in Mappings \cup {NoData},
          debug_print \in BOOLEAN, send_data \in BOOLEAN, net \in NetOutcomes :
        \E r \in {send_dict(graphite, namespace, data, debug_print, send_data, 1700000000, net)} :
            g_call' = [op |-> "send_dict", namespace |-> namespace, data |-> data,
                       debug_print |-> debug_print, send_data |-> send_data,
                       net |-> net, out |-> r]
    /\ UNCHANGED <<graphite, list_data, attr_name, p_op, p_result, environ, query, q_call>>

\* sanitize_key(key)
GSanitizeKey ==
    /\ \E key \in {SomeKey(k) : k \in CounterNames} \cup {NoKey} :
        g_call' = [op |-> "sanitize_key", key |-> key, ret |-> sanitize_key(key)]
    /\ UNCHANGED <<graphite, list_data, attr_name, p_op, p_result, environ, query, q_call>>

NextGraphite == GSendDict \/ GSanitizeKey
SpecGraphite == InitGraphite /\ [][NextGraphite]_vars

----------------------------------------------------------------------------
(* The claims about send_dict and sanitize_key.                            *)

Sent == g_call.op = "send_dict"
NoOp == g_call.out.raised = "none" /\ g_call.out.sockets = <<>>

\* C4 as stated: send_dict with a mapping that is None or empty returns
\* normally, opens no socket and sends nothing, whatever send_data is.
C4_NoOpOnAbsentOrEmpty ==
    Sent /\ (~g_call.data.some \/ g_call.data.items = <<>>) => NoOp

\* C4, amended: send_dict with None is a no-op (a warning is logged) for
\* every send_data; with an empty mapping it is a no-op only when send_data
\* is false, and otherwise opens one socket and sends the framed empty list.
C4_NoOpOnAbsent ==
    Sent =>
        /\ ~g_call.data.some => NoOp /\ g_call.out.log = <<[level |-> "warning"]>>
        /\ g_call.data.some /\ g_call.data.items = <<>> =>
              IF g_call.send_data
              THEN /\ Len(g_call.out.sockets) = 1
                   /\ g_call.out.message.payload.pickled = <<>>
                   /\ g_call.net = [connect |-> "ok", sendall |-> "ok"]
                         /\ graphite.graphite_pickle_port = DefaultPicklePort
                         => g_call.out.sockets[1].sent = g_call.out.message
              ELSE NoOp

\* send_dict(ns, None, send_data=True) has returned
C4_Witness == Sent /\ ~g_call.data.some /\ g_call.send_data /\ NoOp

HasDotOrSpace(chars) == \E i \in 1..Len(chars) : chars[i] \in {".", " "}

\* C5 as stated: the sample of entry (k, v) has the path
\* namespace + "." + sanitize_key(k).
C5_PathsSanitized ==
    Sent /\ g_call.data.some =>
        \A i \in 1..Len(g_call.data.items) :
            g_call.out.post_data[i].path =
                g_call.namespace \o <<".">> \o sanitize_key(SomeKey(g_call.data.items[i].k)).val

\* C5, amended: send_dict builds one sample per entry, in order, with the
\* path namespace + "." + k, k as given (send_dict does not call
\* sanitize_key); sanitize_key(k) is k with every "." and every space
\* replaced by "_", and None for None.
C5_PathsVerbatim ==
    /\ Sent /\ g_call.data.some =>
          /\ Len(g_call.out.post_data) = Len(g_call.data.items)
          /\ \A i \in 1..Len(g_call.data.items) :
                LET path == g_call.out.post_data[i].path
                    ns == g_call.namespace
                    k == g_call.data.items[i].k
                IN  /\ Len(path) = Len(ns) + 1 + Len(k)
                    /\ SubSeq(path, 1, Len(ns)) = ns
                    /\ path[Len(ns) + 1] = "."
                    /\ SubSeq(path, Len(ns) + 2, Len(path)) = k
                    /\ g_call.out.post_data[i].value = g_call.data.items[i].v
    /\ g_call.op = "sanitize_key" =>
          IF ~g_call.key.some THEN g_call.ret = NoKey
          ELSE /\ g_call.ret.some
               /\ Len(g_call.ret.val) = Len(g_call.key.val)
               /\ ~HasDotOrSpace(g_call.ret.val)
               /\ \A i \in 1..Len(g_call.key.val) :
                     g_call.ret.val[i] =
                         IF g_call.key.val[i] \in {".", " "} THEN "_" ELSE g_call.key.val[i]

\* a counter name with a "." in it reaches the sample's path as it is
C5_Witness ==
    /\ Sent
    /\ g_call.data.some
    /\ g_call.namespace = <<"t">>
    /\ \E i \in 1..Len(g_call.data.items) :
          /\ g_call.data.items[i].k = <<"a", ".", "b">>
          /\ g_call.out.post_data[i].path = <<"t", ".", "a", ".", "b">>

\* the call got as far as `s = socket.socket()`
ReachedSend == Sent /\ g_call.data.some /\ g_call.send_data

\* C6: a send_dict call that reaches the send step opens exactly one socket
\* and has closed it when it returns or raises; a socket.error in connect or
\* sendall is logged and send_dict returns normally; when both succeed the
\* socket was sent the whole message.
C6_OneSocketClosed ==
    /\ Sent /\ ~ReachedSend => g_call.out.sockets = <<>>
    /\ ReachedSend =>
          LET failure == IF ConnectOutcome(graphite, g_call.net) = "ok"
                         THEN g_call.net.sendall
                         ELSE ConnectOutcome(graphite, g_call.net)
          IN  /\ Len(g_call.out.sockets) = 1
              /\ g_call.out.sockets[1].closed
              /\ failure = "socket.error" =>
                    /\ g_call.out.raised = "none"
                    /\ \E i \in 1..Len(g_call.out.log) : g_call.out.log[i].level = "exception"
                    /\ g_call.out.sockets[1].sent = NoMessage
              /\ failure = "ok" =>
                    /\ g_call.out.raised = "none"
                    /\ g_call.out.sockets[1].sent = g_call.out.message

\* connect failed with a socket.error: the socket is closed, nothing raised
C6_Witness ==
    /\ ReachedSend
    /\ ConnectOutcome(graphite, g_call.net) = "socket.error"
    /\ g_call.out.sockets[1].closed
    /\ ~g_call.out.sockets[1].connected
    /\ g_call.out.raised = "none"

====
